---------------------------- MODULE Spec2Model ----------------------------
(***************************************************************************)
(* The cross-chain escrow relayer of omnichain-demo/relayer: the message   *)
(* store and event journal (db.rs), the state machine processor, its       *)
(* resume controller and observe/drive phases (state_machine.rs), the      *)
(* destination executor (solana_sim.rs), the proof check (verification.rs) *)
(* and the pause/resume control handlers (server.rs).                      *)
(*                                                                         *)
(* Every await of the processor (store call, RPC, destination call) is one *)
(* step, so a crash or a store error can fall between any two of them.     *)
(***************************************************************************)
EXTENDS Integers, Sequences, FiniteSets, TLC

\* ------------------------------------------------------------------ bounds
\* Nonces the source chain hands out in order are 0..MaxNonce.
MaxNonce == 1
\* The source chain grows to at most MaxBlocks blocks (one log per block).
MaxBlocks == 2
\* Store (SQLite) calls that fail, over the whole run.
MaxFaults == 1
\* Process crashes (kill -9 then restart), over the whole run.
MaxCrashes == 1
\* u64::MAX, scaled down: amounts, results and nonces are kept within this width.
U64_MAX == 7
\* The amount locked by an ordinary request (it doubles without overflow).
SmallAmount == 1
\* Slots of the event broadcast channel (1024 in main.rs), scaled down.
BusCapacity == 2
\* Characters of a hex digest (64 for SHA-256), scaled down.
HashLen == 2
\* Longest string put in place of a field of a proof bundle.
MaxStr == 3
\* Calls of execute_on_solana made in a row by a caller of solana_sim.rs.
MaxCalls == 2

\* ------------------------------------------------------- program constants
MAX_RETRIES == 1

\* nonces are u64: the ones a young chain hands out, and the largest one
SmallNonces == 0..MaxNonce
BigNonce == U64_MAX
Nonces == SmallNonces \cup {BigNonce}
\* An amount that doubles without overflow, u64::MAX itself, and a uint256
\* amount that does not fit in a u64.
Amounts == {SmallAmount, U64_MAX, U64_MAX + 1}

None == <<>>
Some(v) == <<v>>

VARIABLES
    messages,       \* messages table: nonce -> row (NoRow when absent)
    events,         \* events table: nonce -> rows of that nonce, ORDER BY id
    chain,          \* source chain: chain[b] is the log emitted in block b
    paused,         \* AppState.paused
    pc,             \* position of the processor task
    last_block,     \* run_processor's last_block
    current_block,  \* poll_ethereum's current_block
    logs,           \* poll_ethereum: logs of the batch not yet handled
    current_state,  \* process_state's current_state
    queue,          \* rows fetched by get_messages_by_state, not yet visited
    msg,            \* the row (as fetched) being visited
    call_result,    \* advance_executed_to_settled: outcome of call_settle
    execCalls,      \* destination chain: execute calls received, per nonce
    settleCalls,    \* source chain: settle transactions submitted, per nonce
    faults,         \* store calls that have failed so far
    crashes,        \* crashes so far
    bus,            \* the event broadcast channel and its WebSocket subscriber
    proof,          \* verification.rs: a ProofBundle and what verify said of it
    receipts,       \* solana_sim.rs: calls of execute_on_solana with what they returned
    clear_pc,       \* server.rs clear_data: position of the handler
    receipt_account, \* reference program: nonce -> the receipt PDA account
    program_result  \* reference program: the last instruction and its outcome

vars == <<messages, events, chain, paused, pc, last_block, current_block, logs,
          current_state, queue, msg, call_result, execCalls, settleCalls,
          faults, crashes, bus, proof, receipts, clear_pc,
          receipt_account, program_result>>

db == <<messages, events>>
locals == <<current_block, logs, current_state, queue, msg, call_result>>
world == <<chain, execCalls, settleCalls>>
lab == <<proof, receipts, receipt_account, program_result>>

NoMsg == [nonce |-> -1, retry_count |-> 0, amount |-> 0, result |-> None]

\* ------------------------------------------------------------ types.rs
Terminal == {"settled", "failed", "rolled_back"}
ResumeStates == {"observed", "persisted", "verified", "sent_to_solana", "executed"}

\* --------------------------------------------------------------- db.rs
\* A nonce without a row in the messages table.
NoRow == [state |-> "absent", amount |-> 0, result |-> None,
          solana_signature |-> None, eth_settle_tx |-> None,
          proof_json |-> None, retry_count |-> 0, error_message |-> None]

\* faulty variant: the idempotency check never finds the row
nonce_exists_never(tbl, nonce) == FALSE

\* SELECT COUNT(*) FROM messages WHERE nonce = ?  ... count > 0
nonce_exists(tbl, nonce) == tbl[nonce].state # "absent"

\* INSERT OR IGNORE INTO messages (...) VALUES (..., 'observed')
insert_message(tbl, nonce, amount) ==
    IF tbl[nonce].state # "absent" THEN tbl
    ELSE [tbl EXCEPT ![nonce] = [NoRow EXCEPT !.state = "observed",
                                              !.amount = amount]]

COALESCE(new, old) == IF new = None THEN old ELSE new

\* faulty variant: SET x = ? without COALESCE: a NULL argument erases the column
update_message_state_overwrite(tbl, nonce, new_state, result, solana_sig, eth_settle_tx, error_msg) ==
    IF tbl[nonce].state = "absent" THEN tbl
    ELSE [tbl EXCEPT ![nonce] =
            [@ EXCEPT !.state = new_state,
                      !.result = result,
                      !.solana_signature = solana_sig,
                      !.eth_settle_tx = eth_settle_tx,
                      !.error_message = error_msg]]

\* faulty variant: the error_message argument is not bound
update_message_state_drops_error(tbl, nonce, new_state, result, solana_sig, eth_settle_tx, error_msg) ==
    IF tbl[nonce].state = "absent" THEN tbl
    ELSE [tbl EXCEPT ![nonce] =
            [@ EXCEPT !.state = new_state,
                      !.result = COALESCE(result, @),
                      !.solana_signature = COALESCE(solana_sig, @),
                      !.eth_settle_tx = COALESCE(eth_settle_tx, @)]]

\* faulty variant: the eth_settle_tx argument is not bound
update_message_state_drops_settle_tx(tbl, nonce, new_state, result, solana_sig, eth_settle_tx, error_msg) ==
    IF tbl[nonce].state = "absent" THEN tbl
    ELSE [tbl EXCEPT ![nonce] =
            [@ EXCEPT !.state = new_state,
                      !.result = COALESCE(result, @),
                      !.solana_signature = COALESCE(solana_sig, @),
                      !.error_message = COALESCE(error_msg, @)]]

\* UPDATE messages SET state = ?, x = COALESCE(?, x) ... WHERE nonce = ?
update_message_state(tbl, nonce, new_state, result, solana_sig, eth_settle_tx, error_msg) ==
    IF tbl[nonce].state = "absent" THEN tbl
    ELSE [tbl EXCEPT ![nonce] =
            [@ EXCEPT !.state = new_state,
                      !.result = COALESCE(result, @),
                      !.solana_signature = COALESCE(solana_sig, @),
                      !.eth_settle_tx = COALESCE(eth_settle_tx, @),
                      !.error_message = COALESCE(error_msg, @)]]

\* faulty variant: the proof is not written
store_proof_skipped(tbl, nonce, proof_json) == tbl

\* UPDATE messages SET proof_json = ? WHERE nonce = ?
store_proof(tbl, nonce, proof_json) ==
    IF tbl[nonce].state = "absent" THEN tbl
    ELSE [tbl EXCEPT ![nonce].proof_json = Some(proof_json)]

\* UPDATE messages SET retry_count = retry_count + 1 WHERE nonce = ?
increment_retry(tbl, nonce) ==
    IF tbl[nonce].state = "absent" THEN tbl
    ELSE [tbl EXCEPT ![nonce].retry_count = @ + 1]

\* `nonce as i64` (bind) and `msg.nonce as u64` (read back): two's complement
I64_MAX == U64_MAX \div 2
as_i64(n) == IF n > I64_MAX THEN n - (U64_MAX + 1) ELSE n
as_u64(i) == IF i < 0 THEN i + (U64_MAX + 1) ELSE i

\* the columns of a fetched row that the processor uses
Row(tbl, n) ==
    [nonce |-> as_u64(as_i64(n)), retry_count |-> tbl[n].retry_count,
     amount |-> tbl[n].amount, result |-> tbl[n].result]

\* faulty variant: the WHERE state = ? clause is missing
RowsOfAnyState(tbl, state) == {n \in Nonces : tbl[n].state # "absent"}

\* WHERE state = ?
RowsWhere(tbl, state) == {n \in Nonces : tbl[n].state = state}

\* ORDER BY nonce ASC, on the INTEGER column holding `nonce as i64`
RECURSIVE OrderByNonce(_, _)
OrderByNonce(tbl, rows) ==
    IF rows = {} THEN <<>>
    ELSE LET n == CHOOSE n \in rows : \A k \in rows : as_i64(n) <= as_i64(k)
         IN <<Row(tbl, n)>> \o OrderByNonce(tbl, rows \ {n})

\* SELECT ... FROM messages WHERE state = ? ORDER BY nonce ASC
get_messages_by_state(tbl, state) == OrderByNonce(tbl, RowsWhere(tbl, state))

\* INSERT INTO events (nonce, actor, step, status, detail, ...)
insert_event(tbl, nonce, actor, step, status, detail) ==
    [tbl EXCEPT ![nonce] = Append(@, [actor |-> actor, step |-> step,
                                      status |-> status, detail |-> detail])]

\* SUM(expr) over the rows: NULL when there is no row
RECURSIVE SumOver(_, _)
SumOver(f, rows) ==
    IF rows = {} THEN 0
    ELSE LET n == CHOOSE n \in rows : TRUE IN f[n] + SumOver(f, rows \ {n})

SUM(f, rows) == IF rows = {} THEN None ELSE Some(SumOver(f, rows))

\* a column read into an i64 of the result tuple: the SQLite driver's integer
\* accessor gives 0 for NULL
decode_i64(col) == IF col = None THEN 0 ELSE col[1]

\* faulty variant: rolled_back is not listed in the NOT IN of pending
is_pending_without_rolled_back(state) == state \notin {"settled", "failed"}

\* state NOT IN ('settled', 'failed', 'rolled_back')
is_pending(state) == state \notin {"settled", "failed", "rolled_back"}

\* SELECT COUNT(*), SUM(CASE WHEN .. THEN 1 ELSE 0 END) .., COALESCE(SUM(retry_count), 0)
get_metrics(tbl) ==
    LET rows == {n \in Nonces : tbl[n].state # "absent"}
        case(P(_)) == [n \in rows |-> IF P(tbl[n].state) THEN 1 ELSE 0]
        is_settled(st) == st = "settled"
        is_failed(st) == st \in {"failed", "rolled_back"}
    IN [total |-> Cardinality(rows),
        settled |-> decode_i64(SUM(case(is_settled), rows)),
        failed |-> decode_i64(SUM(case(is_failed), rows)),
        pending |-> decode_i64(SUM(case(is_pending), rows)),
        retries |-> decode_i64(COALESCE(SUM([n \in rows |-> tbl[n].retry_count], rows),
                                        Some(0)))]

\* get_events_by_nonce: the stored strings are matched back to the enums; a
\* string that no arm names falls to the default arm
actor_from_str(a) ==
    IF a \in {"ethereum", "solana", "dashboard"} THEN a ELSE "relayer"

step_from_str(st) ==
    IF st \in {"locked", "observed", "verified", "executed", "minted", "burned"}
    THEN st ELSE "settled"

status_from_str(st) ==
    IF st \in {"failure", "retry"} THEN st ELSE "success"

\* SELECT ... FROM events WHERE nonce = ? ORDER BY id ASC, mapped to LifecycleEvent
get_events_by_nonce(tbl, nonce) ==
    [i \in 1..Len(tbl[nonce]) |->
        [actor |-> actor_from_str(tbl[nonce][i].actor),
         step |-> step_from_str(tbl[nonce][i].step),
         status |-> status_from_str(tbl[nonce][i].status),
         detail |-> tbl[nonce][i].detail]]

\* --------------------------------------------------------- solana_sim.rs
\* trace_id: [u8; 32], as its first eight bytes and the other twenty-four
TraceIds == {<<0, 0>>, <<0, 1>>, <<1, 0>>}

\* faulty variant: amount.wrapping_mul(2)
execute_on_solana_wrapping(nonce, amount, trace_id) ==
    [sig |-> <<"sim", nonce, trace_id[1]>>, result |-> (amount * 2) % (U64_MAX + 1)]

\* amount.checked_mul(2).unwrap_or(u64::MAX), and the receipt id
\* format!("sim_{}_{}", nonce, hex::encode(&trace_id[..8]))
execute_on_solana(nonce, amount, trace_id) ==
    [sig |-> <<"sim", nonce, trace_id[1]>>,
     result |-> IF amount * 2 > U64_MAX THEN U64_MAX ELSE amount * 2]

\* ------------------------------------------------------- verification.rs
\* Strings are sequences of characters; the alphabet is scaled down to two.
Chars == {0, 1}
Strings == UNION {[1..k -> Chars] : k \in 0..MaxStr}

\* the arguments generate_proof_bundle is given
BlockNumbers == {0, 1}
TxHashes == {0, 1}
EventData == {0, 1}
\* valid private keys; cfg.relayer_private_key is one of them
Keys == {1, 2}
relayer_private_key == 1

\* hex::encode(Sha256(..)): a string of HashLen characters, one per preimage
hex_digest(preimage) ==
    [k \in 1..HashLen |-> (preimage \div (2 ^ (HashLen - k))) % 2]

\* Sha256("block_header:" ++ block_number ++ tx_hash), hex
block_header_of(block_number, tx_hash) == hex_digest(2 * block_number + tx_hash)

\* Sha256("event_root:" ++ event_data), hex
event_root_of(event_data) == hex_digest(event_data)

\* wallet.address(), and the address ECDSA recovery gives for a signature that
\* was not made over the message (no key of Keys)
address(key) == <<"0x", key>>

\* keccak256(block_header ++ event_root ++ nonce.to_be_bytes()): the bytes of
\* the two strings are concatenated, then the eight bytes of the nonce
compute_signing_message(block_header, event_root, nonce) ==
    <<block_header \o event_root, nonce>>

\* wallet.sign_hash(message), hex: 65 bytes bound to the key and the message
sign_hash(key, message) == <<key, message>>

\* signature.recover(message)
recover(signature, message) ==
    IF signature[2] = message THEN address(signature[1]) ELSE address(0)

NoBundle ==
    [block_header |-> <<>>, event_root |-> <<>>, inclusion_proof |-> <<>>,
     validator_signature |-> <<>>, relayer_address |-> address(0), nonce |-> 0,
     verified |-> FALSE]

generate_proof_bundle(nonce, block_number, tx_hash, event_data, key) ==
    LET block_header == block_header_of(block_number, tx_hash)
        event_root == event_root_of(event_data)
        message == compute_signing_message(block_header, event_root, nonce)
    IN [block_header |-> block_header,
        event_root |-> event_root,
        inclusion_proof |-> [i \in 1..3 |-> <<i - 1, nonce, event_data>>],
        validator_signature |-> sign_hash(key, message),
        relayer_address |-> address(key),
        nonce |-> nonce,
        verified |-> FALSE]

\* faulty variant: the nonce check is missing
verify_proof_bundle_any_nonce(p) ==
    IF \/ p.block_header = <<>>
       \/ p.event_root = <<>>
       \/ p.inclusion_proof = <<>>
       \/ p.validator_signature = <<>>
    THEN "Err"
    ELSE IF recover(p.validator_signature,
                    compute_signing_message(p.block_header, p.event_root, p.nonce))
            # p.relayer_address
         THEN "Err"
         ELSE "Ok"

\* the structural checks, then ECDSA recovery against relayer_address
verify_proof_bundle(p) ==
    IF \/ p.block_header = <<>>
       \/ p.event_root = <<>>
       \/ p.inclusion_proof = <<>>
       \/ p.validator_signature = <<>>
       \/ p.nonce = 0
    THEN "Err"
    ELSE IF recover(p.validator_signature,
                    compute_signing_message(p.block_header, p.event_root, p.nonce))
            # p.relayer_address
         THEN "Err"
         ELSE "Ok"

\* no bundle under examination
NoProof == [built |-> NoBundle, bundle |-> NoBundle, verdict |-> "none"]

\* ------------------------------------------------------ state_machine.rs
\* msg.amount.parse::<u64>().unwrap_or(0)
parse_amount(amount) == IF amount >= 0 /\ amount <= U64_MAX THEN amount ELSE 0

step_for_state(state) ==
    CASE state \in {"observed", "persisted"} -> "observed"
      [] state = "verified" -> "verified"
      [] state \in {"sent_to_solana", "executed"} -> "executed"
      [] state \in {"settled", "failed"} -> "settled"
      [] state = "rolled_back" -> "rollback"

\* faulty variant: process_state(Executed) is not called
NextState_without_executed(state) ==
    CASE state = "persisted" -> "verified"
      [] state = "verified" -> "sent_to_solana"
      [] state = "sent_to_solana" -> "done"
      [] state = "executed" -> "done"

\* process_pending_messages: the order of the process_state calls
NextState(state) ==
    CASE state = "persisted" -> "verified"
      [] state = "verified" -> "sent_to_solana"
      [] state = "sent_to_solana" -> "executed"
      [] state = "executed" -> "done"

\* faulty variant: `>` for `>=`
budget_exhausted_late(retry_count) == retry_count > MAX_RETRIES

\* the budget test at the top of a visit
budget_exhausted(retry_count) == retry_count >= MAX_RETRIES

\* the fault-injection test of the three handlers
simulated_failure(sim, coin, retry_count) ==
    sim /\ ((retry_count > 0 /\ coin) \/ ~(retry_count > 0))

\* ------------------------------- reference/solana-program/src/lib.rs
Senders == {0, 1}

\* ExecutionReceipt::SIZE, and the rent-exempt balance of an account of that size
SIZE == 77
NoReceipt == [is_initialized |-> FALSE, nonce |-> 0, result |-> 0, sender |-> 0,
              trace_id |-> <<0, 0>>, executed_at |-> 0]

\* a receipt PDA that was never created: no lamports, no data
NoAccount == [lamports |-> 0, data_len |-> 0, data |-> NoReceipt]

NoCall == [calls |-> 0, nonce |-> 0, amount |-> 0, created |-> FALSE, result |-> "none"]

\* faulty variant: the receipt is written again on every call
already_executed_never(account) == FALSE

\* `data_len() > 0 && lamports() > 0`, then `existing.is_initialized`
already_executed(account) ==
    /\ account.data_len > 0 /\ account.lamports > 0
    /\ account.data.is_initialized

\* u64::checked_mul
checked_mul(a, b) == IF a * b > U64_MAX THEN None ELSE Some(a * b)

\* execute_cross_chain on the account handed in as the receipt PDA; is_signer,
\* key_is_pda and invoke_ok are what the runtime reports of the payer, of the
\* account key and of the create_account call, now is the clock
execute_cross_chain(account, nonce, sender, amount, trace_id, is_signer, key_is_pda, invoke_ok, now) ==
    IF ~is_signer THEN [result |-> "MissingRequiredSignature", account |-> account]
    ELSE IF ~key_is_pda THEN [result |-> "InvalidArgument", account |-> account]
    ELSE IF already_executed(account) THEN [result |-> "Ok", account |-> account]
    ELSE IF checked_mul(amount, 2) = None
         THEN [result |-> "ArithmeticOverflow", account |-> account]
    ELSE IF ~invoke_ok THEN [result |-> "InvokeError", account |-> account]
    ELSE [result |-> "Ok",
          account |-> [lamports |-> 1, data_len |-> SIZE,
                       data |-> [is_initialized |-> TRUE, nonce |-> nonce,
                                 result |-> checked_mul(amount, 2)[1],
                                 sender |-> sender, trace_id |-> trace_id,
                                 executed_at |-> now]]]

\* ----------------------------------------------------- the event bus
\* broadcast::channel(1024) with the WebSocket subscriber of handle_ws: rx is
\* "none" (no receiver), "open" (send_task forwarding) or "ended" (send_task
\* over); tail counts the values sent to the receiver, pos those it has taken,
\* delivered lists the positions forwarded to the client, sent the
\* values sent to the receiver.
BusInit == [rx |-> "none", tail |-> 0, pos |-> 0, delivered |-> <<>>, sent |-> <<>>]

\* faulty variant: the event is sent twice
event_tx_send_twice(b, event) ==
    IF b.rx = "open"
    THEN [b EXCEPT !.tail = @ + 2, !.sent = Append(Append(@, event), event)]
    ELSE b

\* event_tx.send(event): never waits; without a receiver the value is dropped
\* and the Err is ignored (`let _ =`)
event_tx_send(b, event) ==
    IF b.rx = "open" THEN [b EXCEPT !.tail = @ + 1, !.sent = Append(@, event)] ELSE b

\* a store call fails: the error is propagated by `?`
StoreErr == faults < MaxFaults /\ faults' = faults + 1
StoreOk == faults' = faults

\* emit_and_persist, its insert succeeding: insert_event, then event_tx.send
emit_and_persist(nonce, actor, step, status, detail) ==
    /\ events' = insert_event(events, nonce, actor, step, status, detail)
    /\ bus' = event_tx_send(bus, [nonce |-> nonce,
                                  event |-> [actor |-> actor, step |-> step,
                                             status |-> status, detail |-> detail]])

Init ==
    /\ messages = [n \in Nonces |-> NoRow]
    /\ events = [n \in Nonces |-> <<>>]
    /\ chain = <<>>
    /\ paused = FALSE
    /\ pc = "resume"
    /\ last_block = 0
    /\ current_block = 0
    /\ logs = <<>>
    /\ current_state = "none"
    /\ queue = <<>>
    /\ msg = NoMsg
    /\ call_result = "none"
    /\ execCalls = [n \in Nonces |-> 0]
    /\ settleCalls = [n \in Nonces |-> 0]
    /\ faults = 0
    /\ crashes = 0
    /\ bus = BusInit
    /\ proof = NoProof
    /\ receipts = <<>>
    /\ clear_pc = "idle"
    /\ receipt_account = [n \in Nonces |-> NoAccount]
    /\ program_result = NoCall

\* ------------------------------------------------- processor bookkeeping
ResetLocals ==
    /\ current_block' = 0
    /\ logs' = <<>>
    /\ current_state' = "none"
    /\ queue' = <<>>
    /\ msg' = NoMsg
    /\ call_result' = "none"

\* run_processor returns Err: the task ends, main's select! returns and the
\* process exits.
ProcessorExit ==
    /\ pc' = "exited"
    /\ ResetLocals
    /\ UNCHANGED <<last_block>>

\* poll_ethereum is over (Ok or Err): process_pending_messages starts with
\* process_state(Persisted).
StartDrive ==
    /\ pc' = "drive_fetch"
    /\ current_state' = "persisted"
    /\ logs' = <<>>
    /\ UNCHANGED <<current_block, queue, msg, call_result>>

\* process_pending_messages is over (Ok or Err): sleep, then the loop top.
EndDrive ==
    /\ pc' = "loop"
    /\ ResetLocals

\* the visit of msg is over: back to the `for msg in messages` loop
NextVisit ==
    /\ pc' = "visit"
    /\ msg' = NoMsg
    /\ call_result' = "none"
    /\ UNCHANGED <<current_block, logs, current_state, queue>>

\* the step handler returns Err(e): `if let Err(e) = result`
HandlerErr ==
    /\ pc' = "retry_inc"
    /\ call_result' = "none"
    /\ UNCHANGED <<current_block, logs, current_state, queue, msg>>

Goto(label) ==
    /\ pc' = label
    /\ UNCHANGED locals

\* ------------------------------------------------------- resume_inflight
\* the get_messages_by_state calls up to the one for SentToSolana
ResumeFetch ==
    /\ pc = "resume"
    /\ \/ /\ StoreOk
          /\ pc' = "resume_promote"
          /\ queue' = get_messages_by_state(messages, "sent_to_solana")
          /\ UNCHANGED <<current_block, logs, current_state, msg, call_result, last_block>>
       \/ /\ StoreErr
          /\ ProcessorExit
    /\ UNCHANGED <<db, world, paused, crashes, bus, lab, clear_pc>>

\* for msg in &messages { update_message_state(nonce, Executed, None x 4) }
ResumePromote ==
    /\ pc = "resume_promote"
    /\ queue # <<>>
    /\ \/ /\ StoreOk
          /\ messages' = update_message_state(messages, Head(queue).nonce, "executed",
                                              None, None, None, None)
          /\ msg' = Head(queue)
          /\ queue' = Tail(queue)
          /\ UNCHANGED <<pc, current_block, logs, current_state, call_result, last_block>>
       \/ /\ StoreErr
          /\ ProcessorExit
          /\ UNCHANGED messages
    /\ UNCHANGED <<events, world, paused, crashes, bus, lab, clear_pc>>

\* the last get_messages_by_state (Executed), then `let mut last_block = 0`
ResumeDone ==
    /\ pc = "resume_promote"
    /\ queue = <<>>
    /\ \/ /\ StoreOk
          /\ pc' = "loop"
          /\ last_block' = 0
          /\ ResetLocals
       \/ /\ StoreErr
          /\ ProcessorExit
    /\ UNCHANGED <<db, world, paused, crashes, bus, lab, clear_pc>>

\* --------------------------------------------------------- run_processor
\* top of the loop: if paused { sleep; continue }
LoopTop ==
    /\ pc = "loop"
    /\ IF paused THEN pc' = "loop" ELSE pc' = "poll_head"
    /\ UNCHANGED <<db, world, paused, last_block, locals, faults, crashes, bus, lab, clear_pc>>

\* --------------------------------------------------------- poll_ethereum
\* eth::get_block_number, and the `current_block <= *last_block` return
PollHead ==
    /\ pc = "poll_head"
    /\ \/ /\ current_block' = Len(chain)
          /\ IF Len(chain) <= last_block
             THEN /\ pc' = "drive_fetch"
                  /\ current_state' = "persisted"
             ELSE /\ pc' = "poll_fetch"
                  /\ UNCHANGED current_state
          /\ UNCHANGED <<logs, queue, msg, call_result>>
       \/ StartDrive    \* the RPC fails: `?`
    /\ UNCHANGED <<db, world, paused, last_block, faults, crashes, bus, lab, clear_pc>>

\* faulty variant: the filter starts at last_block itself
from_block_inclusive == last_block

from_block == IF last_block = 0 THEN 0 ELSE last_block + 1

\* the logs of every block >= from (blocks are numbered from 1)
fetch_logs(from) ==
    LET first == IF from < 1 THEN 1 ELSE from
    IN  [i \in 1..(Len(chain) - first + 1) |-> chain[first + i - 1]]

PollFetch ==
    /\ pc = "poll_fetch"
    /\ \/ /\ logs' = fetch_logs(from_block)
          /\ pc' = "poll_log"
          /\ UNCHANGED <<current_block, current_state, queue, msg, call_result>>
       \/ StartDrive    \* the RPC fails: `?`
    /\ UNCHANGED <<db, world, paused, last_block, faults, crashes, bus, lab, clear_pc>>

\* end of the `for log in &logs` loop: *last_block = current_block
PollEnd ==
    /\ pc = "poll_log"
    /\ logs = <<>>
    /\ last_block' = current_block
    /\ StartDrive
    /\ UNCHANGED <<db, world, paused, faults, crashes, bus, lab, clear_pc>>

\* eth.rs parse_log. A log is well formed ("ok"), or has a body shorter than
\* 128 bytes ("short_body"), a payload offset or length pointing outside the
\* body ("bad_offset"), or no indexed topics ("no_topics").
\*   topics.get(2).copied().unwrap_or_default(): a missing topic reads as zero;
\*   data.len() < 128: bail;
\*   &data[payload_offset..payload_offset + 32] and the payload slice: an index
\*   outside the body panics.
parse_log(log) ==
    CASE log.form = "short_body" -> [kind |-> "Err", nonce |-> 0, amount |-> 0]
      [] log.form = "bad_offset" -> [kind |-> "Panic", nonce |-> 0, amount |-> 0]
      [] log.form = "no_topics" -> [kind |-> "Ok", nonce |-> 0, amount |-> log.amount]
      [] log.form = "ok" -> [kind |-> "Ok", nonce |-> log.nonce, amount |-> log.amount]

\* parse_log, then `if nonce_exists(nonce)? { continue }`; a panic ends the
\* processor task, main's select! returns and the process exits
PollLog ==
    /\ pc = "poll_log"
    /\ logs # <<>>
    /\ LET event == parse_log(Head(logs)) IN
       CASE event.kind = "Panic" ->
              /\ StoreOk
              /\ ProcessorExit
         [] event.kind = "Err" ->
              /\ StoreOk
              /\ logs' = Tail(logs)
              /\ UNCHANGED <<pc, current_block, current_state, queue, msg, call_result>>
         [] event.kind = "Ok" ->
              \/ /\ StoreOk
                 /\ IF nonce_exists(messages, event.nonce)
                    THEN /\ logs' = Tail(logs)
                         /\ pc' = "poll_log"
                    ELSE /\ pc' = "poll_insert"
                         /\ UNCHANGED logs
                 /\ UNCHANGED <<current_block, current_state, queue, msg, call_result>>
              \/ /\ StoreErr
                 /\ StartDrive
    /\ UNCHANGED <<db, world, paused, last_block, crashes, bus, lab, clear_pc>>

PollInsert ==
    /\ pc = "poll_insert"
    /\ \/ /\ StoreOk
          /\ messages' = insert_message(messages, parse_log(Head(logs)).nonce,
                                         parse_log(Head(logs)).amount)
          /\ Goto("poll_locked")
       \/ /\ StoreErr
          /\ StartDrive
          /\ UNCHANGED messages
    /\ UNCHANGED <<events, world, paused, last_block, crashes, bus, lab, clear_pc>>

PollLocked ==
    /\ pc = "poll_locked"
    /\ \/ /\ StoreOk
          /\ emit_and_persist(parse_log(Head(logs)).nonce,
                                    "ethereum", "locked", "success", "tx")
          /\ Goto("poll_observed")
       \/ /\ StoreErr
          /\ StartDrive
          /\ UNCHANGED <<events, bus>>
    /\ UNCHANGED <<messages, world, paused, last_block, crashes, lab, clear_pc>>

PollObserved ==
    /\ pc = "poll_observed"
    /\ \/ /\ StoreOk
          /\ emit_and_persist(parse_log(Head(logs)).nonce,
                                    "relayer", "observed", "success", "block")
          /\ Goto("poll_persist")
       \/ /\ StoreErr
          /\ StartDrive
          /\ UNCHANGED <<events, bus>>
    /\ UNCHANGED <<messages, world, paused, last_block, crashes, lab, clear_pc>>

PollPersist ==
    /\ pc = "poll_persist"
    /\ \/ /\ StoreOk
          /\ messages' = update_message_state(messages, parse_log(Head(logs)).nonce, "persisted",
                                              None, None, None, None)
          /\ pc' = "poll_log"
          /\ logs' = Tail(logs)
          /\ UNCHANGED <<current_block, current_state, queue, msg, call_result>>
       \/ /\ StoreErr
          /\ StartDrive
          /\ UNCHANGED messages
    /\ UNCHANGED <<events, world, paused, last_block, crashes, bus, lab, clear_pc>>

\* --------------------------------------- process_pending_messages / process_state
\* let messages = get_messages_by_state(current_state)?
DriveFetch ==
    /\ pc = "drive_fetch"
    /\ \/ /\ StoreOk
          /\ queue' = get_messages_by_state(messages, current_state)
          /\ pc' = "visit"
          /\ UNCHANGED <<current_block, logs, current_state, msg, call_result>>
       \/ /\ StoreErr
          /\ EndDrive
    /\ UNCHANGED <<db, world, paused, last_block, crashes, bus, lab, clear_pc>>

\* faulty variant: Persisted is dispatched to advance_verified_to_sent
handler_for_skipping_verify(state) ==
    CASE state = "persisted" -> "vs_execute"
      [] state = "verified" -> "vs_execute"
      [] state = "sent_to_solana" -> "visit"
      [] state = "executed" -> "es_burn"

\* faulty variant: advance_sent_to_executed writes the Executed state itself
handler_for_sent_advances(state) ==
    CASE state = "persisted" -> "pv_verify"
      [] state = "verified" -> "vs_execute"
      [] state = "sent_to_solana" -> "vs_executed"
      [] state = "executed" -> "es_burn"

\* the handler process_state dispatches to: the label of its first await
\* (advance_sent_to_executed has none and returns Ok at once)
handler_for(state) ==
    CASE state = "persisted" -> "pv_verify"
      [] state = "verified" -> "vs_execute"
      [] state = "sent_to_solana" -> "visit"    \* advance_sent_to_executed: Ok(())
      [] state = "executed" -> "es_burn"

\* the `for` loop is over (no message left, or `if paused { break }`):
\* process_state returns Ok and the next process_state call starts
VisitEnd ==
    /\ pc = "visit"
    /\ queue = <<>> \/ paused
    /\ IF NextState(current_state) = "done"
       THEN EndDrive
       ELSE /\ pc' = "drive_fetch"
            /\ current_state' = NextState(current_state)
            /\ queue' = <<>>
            /\ UNCHANGED <<current_block, logs, msg, call_result>>
    /\ UNCHANGED <<db, world, paused, last_block, faults, crashes, bus, lab, clear_pc>>

\* faulty variant: the loop does not test paused
Visit_ignoring_pause ==
    /\ pc = "visit"
    /\ queue # <<>>
    /\ queue' = Tail(queue)
    /\ pc' = IF budget_exhausted(Head(queue).retry_count)
             THEN "rb_event"
             ELSE handler_for(current_state)
    /\ msg' = IF pc' = "visit" THEN NoMsg ELSE Head(queue)
    /\ UNCHANGED <<current_block, logs, current_state, call_result>>
    /\ UNCHANGED <<db, world, paused, last_block, faults, crashes, bus, lab, clear_pc>>

\* one iteration of the loop: the budget test, then the dispatch
Visit ==
    /\ pc = "visit"
    /\ queue # <<>>
    /\ ~paused
    /\ queue' = Tail(queue)
    /\ pc' = IF budget_exhausted(Head(queue).retry_count)
             THEN "rb_event"
             ELSE handler_for(current_state)
    /\ msg' = IF pc' = "visit" THEN NoMsg ELSE Head(queue)
    /\ UNCHANGED <<current_block, logs, current_state, call_result>>
    /\ UNCHANGED <<db, world, paused, last_block, faults, crashes, bus, lab, clear_pc>>

\* rollback: emit (Relayer, Rollback, Failure)
RollbackEvent ==
    /\ pc = "rb_event"
    /\ \/ /\ StoreOk
          /\ emit_and_persist(msg.nonce,
                                    "relayer", "rollback", "failure", "rollback")
          /\ Goto("rb_update")
       \/ /\ StoreErr
          /\ EndDrive
          /\ UNCHANGED <<events, bus>>
    /\ UNCHANGED <<messages, world, paused, last_block, crashes, lab, clear_pc>>

\* rollback: update_message_state(RolledBack, error "Rolled back from {S} ...")
RollbackUpdate ==
    /\ pc = "rb_update"
    /\ \/ /\ StoreOk
          /\ messages' = update_message_state(messages, msg.nonce, "rolled_back",
                                              None, None, None, Some(current_state))
          /\ Goto("rb_settled")
       \/ /\ StoreErr
          /\ EndDrive
          /\ UNCHANGED messages
    /\ UNCHANGED <<events, world, paused, last_block, crashes, bus, lab, clear_pc>>

\* rollback: emit (Ethereum, Settled, Failure), then `continue`
RollbackSettled ==
    /\ pc = "rb_settled"
    /\ \/ /\ StoreOk
          /\ emit_and_persist(msg.nonce,
                                    "ethereum", "settled", "failure", "refunded")
          /\ NextVisit
       \/ /\ StoreErr
          /\ EndDrive
          /\ UNCHANGED <<events, bus>>
    /\ UNCHANGED <<messages, world, paused, last_block, crashes, lab, clear_pc>>

\* `if let Err(e) = result`: increment_retry(nonce)?
RetryIncrement ==
    /\ pc = "retry_inc"
    /\ \/ /\ StoreOk
          /\ messages' = increment_retry(messages, msg.nonce)
          /\ Goto("retry_event")
       \/ /\ StoreErr
          /\ EndDrive
          /\ UNCHANGED messages
    /\ UNCHANGED <<events, world, paused, last_block, crashes, bus, lab, clear_pc>>

\* emit (Relayer, step_for_state(current_state), Retry)
RetryEvent ==
    /\ pc = "retry_event"
    /\ \/ /\ StoreOk
          /\ emit_and_persist(msg.nonce, "relayer",
                                    step_for_state(current_state), "retry", "error")
          /\ NextVisit
       \/ /\ StoreErr
          /\ EndDrive
          /\ UNCHANGED <<events, bus>>
    /\ UNCHANGED <<messages, world, paused, last_block, crashes, lab, clear_pc>>

\* ------------------------------------------- advance_persisted_to_verified
\* generate_proof_bundle(nonce, 0, &msg.trace_id, msg.payload, key); the rows
\* of the model keep neither trace_id nor payload
proof_for(m) == generate_proof_bundle(m.nonce, 0, 0, 0, relayer_private_key)

\* the injected fault, generate_proof_bundle and verify_proof_bundle
VerifyProof ==
    /\ pc = "pv_verify"
    /\ \E sim \in BOOLEAN, coin \in BOOLEAN :
         IF \/ simulated_failure(sim, coin, msg.retry_count)
            \/ verify_proof_bundle(proof_for(msg)) = "Err"
         THEN HandlerErr
         ELSE Goto("pv_store")
    /\ UNCHANGED <<db, world, paused, last_block, faults, crashes, bus, lab, clear_pc>>

StoreProof ==
    /\ pc = "pv_store"
    /\ \/ /\ StoreOk
          /\ messages' = store_proof(messages, msg.nonce, "proof")
          /\ Goto("pv_update")
       \/ /\ StoreErr
          /\ HandlerErr
          /\ UNCHANGED messages
    /\ UNCHANGED <<events, world, paused, last_block, crashes, bus, lab, clear_pc>>

VerifiedUpdate ==
    /\ pc = "pv_update"
    /\ \/ /\ StoreOk
          /\ messages' = update_message_state(messages, msg.nonce, "verified",
                                              None, None, None, None)
          /\ Goto("pv_event")
       \/ /\ StoreErr
          /\ HandlerErr
          /\ UNCHANGED messages
    /\ UNCHANGED <<events, world, paused, last_block, crashes, bus, lab, clear_pc>>

VerifiedEvent ==
    /\ pc = "pv_event"
    /\ \/ /\ StoreOk
          /\ emit_and_persist(msg.nonce,
                                    "relayer", "verified", "success", "verification passed")
          /\ NextVisit
       \/ /\ StoreErr
          /\ HandlerErr
          /\ UNCHANGED <<events, bus>>
    /\ UNCHANGED <<messages, world, paused, last_block, crashes, lab, clear_pc>>

\* ------------------------------------------------ advance_verified_to_sent
\* what the handler gets back from the destination for msg
\* (the rows of the model do not keep trace_id: trace_bytes is all zero)
Receipt == execute_on_solana(msg.nonce, parse_amount(msg.amount), <<0, 0>>)

\* the injected fault, then solana_sim::execute_on_solana
ExecuteOnSolana ==
    /\ pc = "vs_execute"
    /\ \E sim \in BOOLEAN, coin \in BOOLEAN :
         IF simulated_failure(sim, coin, msg.retry_count)
         THEN /\ HandlerErr
              /\ UNCHANGED execCalls
         ELSE /\ execCalls' = [execCalls EXCEPT ![msg.nonce] = @ + 1]
              /\ Goto("vs_sent")
    /\ UNCHANGED <<db, chain, settleCalls, paused, last_block, faults, crashes, bus, lab, clear_pc>>

SentUpdate ==
    /\ pc = "vs_sent"
    /\ \/ /\ StoreOk
          /\ messages' = update_message_state(messages, msg.nonce, "sent_to_solana",
                                              Some(Receipt.result), Some(Receipt.sig),
                                              None, None)
          /\ Goto("vs_event")
       \/ /\ StoreErr
          /\ HandlerErr
          /\ UNCHANGED messages
    /\ UNCHANGED <<events, world, paused, last_block, crashes, bus, lab, clear_pc>>

ExecutedEvent ==
    /\ pc = "vs_event"
    /\ \/ /\ StoreOk
          /\ emit_and_persist(msg.nonce,
                                    "relayer", "executed", "success", "solana_sig")
          /\ Goto("vs_executed")
       \/ /\ StoreErr
          /\ HandlerErr
          /\ UNCHANGED <<events, bus>>
    /\ UNCHANGED <<messages, world, paused, last_block, crashes, lab, clear_pc>>

ExecutedUpdate ==
    /\ pc = "vs_executed"
    /\ \/ /\ StoreOk
          /\ messages' = update_message_state(messages, msg.nonce, "executed",
                                              None, None, None, None)
          /\ Goto("vs_minted")
       \/ /\ StoreErr
          /\ HandlerErr
          /\ UNCHANGED messages
    /\ UNCHANGED <<events, world, paused, last_block, crashes, bus, lab, clear_pc>>

MintedEvent ==
    /\ pc = "vs_minted"
    /\ \/ /\ StoreOk
          /\ emit_and_persist(msg.nonce,
                                    "solana", "minted", "success", "minted")
          /\ NextVisit
       \/ /\ StoreErr
          /\ HandlerErr
          /\ UNCHANGED <<events, bus>>
    /\ UNCHANGED <<messages, world, paused, last_block, crashes, lab, clear_pc>>

\* --------------------------------------------- advance_executed_to_settled
BurnedEvent ==
    /\ pc = "es_burn"
    /\ \/ /\ StoreOk
          /\ emit_and_persist(msg.nonce,
                                    "solana", "burned", "success", "burned")
          /\ Goto("es_settle")
       \/ /\ StoreErr
          /\ HandlerErr
          /\ UNCHANGED <<events, bus>>
    /\ UNCHANGED <<messages, world, paused, last_block, crashes, lab, clear_pc>>

\* the injected fault, sign_settlement, then eth::call_settle: the transaction
\* is confirmed (Ok), never sent (Err) or sent and dropped (Err)
CallSettle ==
    /\ pc = "es_settle"
    /\ \E sim \in BOOLEAN, coin \in BOOLEAN :
         IF simulated_failure(sim, coin, msg.retry_count)
         THEN /\ HandlerErr
              /\ UNCHANGED settleCalls
         ELSE \E outcome \in {"confirmed", "not_sent", "dropped"} :
              /\ settleCalls' = [settleCalls EXCEPT ![msg.nonce] =
                                   IF outcome = "not_sent" THEN @ ELSE @ + 1]
              /\ call_result' = IF outcome = "confirmed" THEN "Ok" ELSE "Err"
              /\ pc' = "es_update"
              /\ UNCHANGED <<current_block, logs, current_state, queue, msg>>
    /\ UNCHANGED <<db, chain, execCalls, paused, last_block, faults, crashes, bus, lab, clear_pc>>

\* the transaction id written to eth_settle_tx in the two match arms
\* faulty variant: the Err arm records a hash as if the call had been confirmed
settle_tx_always_hash(result, nonce) == <<"tx_hash", nonce>>

settle_tx(result, nonce) ==
    IF result = "Ok" THEN <<"tx_hash", nonce>> ELSE <<"0xsim_settle", nonce>>

SettledUpdate ==
    /\ pc = "es_update"
    /\ \/ /\ StoreOk
          /\ messages' = update_message_state(messages, msg.nonce, "settled",
                                              None, None, Some(settle_tx(call_result, msg.nonce)), None)
          /\ Goto("es_event")
       \/ /\ StoreErr
          /\ HandlerErr
          /\ UNCHANGED messages
    /\ UNCHANGED <<events, world, paused, last_block, crashes, bus, lab, clear_pc>>

SettledEvent ==
    /\ pc = "es_event"
    /\ \/ /\ StoreOk
          /\ emit_and_persist(msg.nonce, "ethereum", "settled", "success",
                                    IF call_result = "Ok" THEN "tx" ELSE "simulated_tx")
          /\ NextVisit
       \/ /\ StoreErr
          /\ HandlerErr
          /\ UNCHANGED <<events, bus>>
    /\ UNCHANGED <<messages, world, paused, last_block, crashes, lab, clear_pc>>

\* ------------------------------------------------------------ environment
\* the process is killed at any await and started again: the stores survive,
\* AppState and the processor's locals are rebuilt (main.rs)
Restarted ==
    /\ pc' = "resume"
    /\ last_block' = 0
    /\ paused' = FALSE
    /\ ResetLocals
    /\ bus' = BusInit
    /\ clear_pc' = "idle"
    /\ UNCHANGED <<db, world, faults, lab>>

Crash ==
    /\ pc # "exited"
    /\ crashes < MaxCrashes
    /\ crashes' = crashes + 1
    /\ Restarted

\* the process that exited on a processor error is started again
Restart ==
    /\ pc = "exited"
    /\ Restarted
    /\ UNCHANGED crashes

\* the escrow contract emits CrossChainRequest(nonce, amount) in a new block; a
\* nonce seen before is the same log delivered again
Emit(n, a) ==
    /\ Len(chain) < MaxBlocks
    /\ \A b \in 1..Len(chain) : chain[b].nonce = n => chain[b].amount = a
    /\ chain' = Append(chain, [nonce |-> n, amount |-> a, form |-> "ok"])
    /\ UNCHANGED <<db, execCalls, settleCalls, paused, pc, last_block, locals, faults, crashes, bus, lab, clear_pc>>

\* a request locking an ordinary amount
Mine == \E n \in SmallNonces : Emit(n, SmallAmount)

\* a request locking any uint256 amount
MineAmount == \E n \in SmallNonces, a \in Amounts : Emit(n, a)

\* a request with any u64 nonce
MineNonce == \E n \in Nonces : Emit(n, SmallAmount)

\* a log of the escrow address that parse_log cannot decode
Malformed == {"short_body", "bad_offset", "no_topics"}

EmitMalformed ==
    /\ Len(chain) < MaxBlocks
    /\ \E n \in SmallNonces \ {0}, form \in Malformed :
          chain' = Append(chain, [nonce |-> n, amount |-> SmallAmount, form |-> form])
    /\ UNCHANGED <<db, execCalls, settleCalls, paused, pc, last_block, locals, faults,
                   crashes, bus, lab, clear_pc>>

\* server.rs: POST /control/pause and /control/resume
pause ==
    /\ paused' = TRUE
    /\ UNCHANGED <<db, world, pc, last_block, locals, faults, crashes, bus, lab, clear_pc>>

\* (clear_pc "done" records that clear_data has returned and the processor
\* has not been resumed since)
resume ==
    /\ paused' = FALSE
    /\ clear_pc' = IF clear_pc = "done" THEN "idle" ELSE clear_pc
    /\ UNCHANGED <<db, world, pc, last_block, locals, faults, crashes, bus, lab>>

\* db.rs clear_all_data: the two DELETE statements
NoEvents == [n \in Nonces |-> <<>>]
NoMessages == [n \in Nonces |-> NoRow]

\* server.rs: POST /control/clear-data. paused.store(true), then
\* clear_all_data: DELETE FROM events, DELETE FROM messages, then the answer
ClearPause ==
    /\ clear_pc \in {"idle", "done"}
    /\ paused' = TRUE
    /\ clear_pc' = "delete_events"
    /\ UNCHANGED <<db, world, pc, last_block, locals, faults, crashes, bus, lab>>

ClearEvents ==
    /\ clear_pc = "delete_events"
    /\ events' = NoEvents
    /\ clear_pc' = "delete_messages"
    /\ UNCHANGED <<messages, world, paused, pc, last_block, locals, faults, crashes, bus, lab>>

ClearMessages ==
    /\ clear_pc = "delete_messages"
    /\ messages' = NoMessages
    /\ clear_pc' = "done"
    /\ UNCHANGED <<events, world, paused, pc, last_block, locals, faults, crashes, bus, lab>>

clear_data == ClearPause \/ ClearEvents \/ ClearMessages

\* server.rs handle_ws: a WebSocket client connects and subscribes
Subscribe ==
    /\ bus.rx = "none"
    /\ bus' = [bus EXCEPT !.rx = "open"]
    /\ UNCHANGED <<db, world, paused, pc, last_block, locals, faults, crashes, lab, clear_pc>>

\* send_task: `while let Ok(event) = event_rx.recv().await { forward }`. recv
\* gives the next value, or Err(Lagged) once more than BusCapacity values are
\* waiting; the Err ends the loop and the task
Recv ==
    /\ bus.rx = "open"
    /\ bus.pos < bus.tail
    /\ IF bus.tail - bus.pos > BusCapacity
       THEN bus' = [bus EXCEPT !.rx = "ended"]
       ELSE bus' = [bus EXCEPT !.pos = @ + 1, !.delivered = Append(@, bus.pos + 1)]
    /\ UNCHANGED <<db, world, paused, pc, last_block, locals, faults, crashes, lab, clear_pc>>

\* the main loop of run_processor: observe phase, drive phase
MainLoop ==
    \/ LoopTop
    \/ PollHead \/ PollFetch \/ PollEnd \/ PollLog \/ PollInsert
    \/ PollLocked \/ PollObserved \/ PollPersist
    \/ DriveFetch \/ VisitEnd \/ Visit
    \/ RollbackEvent \/ RollbackUpdate \/ RollbackSettled
    \/ RetryIncrement \/ RetryEvent
    \/ VerifyProof \/ StoreProof \/ VerifiedUpdate \/ VerifiedEvent
    \/ ExecuteOnSolana \/ SentUpdate \/ ExecutedEvent \/ ExecutedUpdate \/ MintedEvent
    \/ BurnedEvent \/ CallSettle \/ SettledUpdate \/ SettledEvent

Processor ==
    \/ ResumeFetch \/ ResumePromote \/ ResumeDone
    \/ MainLoop

Next ==
    \/ Processor
    \/ Crash \/ Restart \/ Mine \/ pause \/ resume

\* The relayer with store errors, crashes and the pause control; requests lock
\* an ordinary amount.
Spec == Init /\ [][Next]_vars

\* No store call fails and the process is never killed.
InitNoFault ==
    /\ Init!1 /\ Init!2 /\ Init!3 /\ Init!4 /\ Init!5 /\ Init!6 /\ Init!7
    /\ Init!8 /\ Init!9 /\ Init!10 /\ Init!11 /\ Init!12 /\ Init!13 /\ Init!14
    /\ faults = MaxFaults
    /\ crashes = MaxCrashes
    /\ Init!17 /\ Init!18 /\ Init!19 /\ Init!20 /\ Init!21 /\ Init!22

NextAmounts ==
    \/ ResumeFetch \/ ResumeDone
    \/ MainLoop
    \/ MineAmount \/ pause \/ resume

\* The relayer without store errors and crashes; requests lock any amount.
SpecAmounts == InitNoFault /\ [][NextAmounts]_vars

NextOrder ==
    \/ ResumeFetch \/ ResumeDone
    \/ MainLoop
    \/ MineNonce

\* The relayer without store errors, crashes and pause; requests carry any nonce.
SpecOrder == InitNoFault /\ [][NextOrder]_vars

NextBus ==
    \/ ResumeFetch \/ ResumeDone
    \/ MainLoop
    \/ Mine
    \/ Subscribe \/ Recv

\* The relayer without store errors, crashes and pause, with one WebSocket
\* subscriber that takes the events at its own pace.
SpecBus == InitNoFault /\ [][NextBus]_vars

\* Store calls succeed; the process may be killed. The processor task is always
\* scheduled again (tokio), and an exited process is started again.
InitStoreOk ==
    /\ Init!1 /\ Init!2 /\ Init!3 /\ Init!4 /\ Init!5 /\ Init!6 /\ Init!7
    /\ Init!8 /\ Init!9 /\ Init!10 /\ Init!11 /\ Init!12 /\ Init!13 /\ Init!14
    /\ faults = MaxFaults
    /\ crashes = 0
    /\ Init!17 /\ Init!18 /\ Init!19 /\ Init!20 /\ Init!21 /\ Init!22

NextFair ==
    \/ ResumeFetch \/ ResumePromote \/ ResumeDone
    \/ MainLoop
    \/ Crash \/ Mine

FairSpec == InitStoreOk /\ [][NextFair]_vars /\ WF_vars(NextFair)

\* Store calls may fail and the process is not killed; a WebSocket client
\* subscribes at any moment.
InitJournal ==
    /\ Init!1 /\ Init!2 /\ Init!3 /\ Init!4 /\ Init!5 /\ Init!6 /\ Init!7
    /\ Init!8 /\ Init!9 /\ Init!10 /\ Init!11 /\ Init!12 /\ Init!13 /\ Init!14
    /\ Init!15
    /\ crashes = MaxCrashes
    /\ Init!17 /\ Init!18 /\ Init!19 /\ Init!20 /\ Init!21 /\ Init!22

NextJournal ==
    \/ ResumeFetch \/ ResumeDone
    \/ MainLoop
    \/ Mine
    \/ Subscribe

SpecJournal == InitJournal /\ [][NextJournal]_vars

NextClear ==
    \/ ResumeFetch \/ ResumeDone
    \/ MainLoop
    \/ Mine \/ resume \/ clear_data

\* The relayer without store errors and kills; the operator clears the stores
\* and resumes at will.
SpecClear == InitNoFault /\ [][NextClear]_vars

NextLogs ==
    \/ ResumeFetch \/ ResumeDone
    \/ MainLoop
    \/ Restart \/ Mine \/ EmitMalformed

\* The relayer without store errors and kills; the source chain also carries
\* logs that do not decode.
SpecLogs == InitNoFault /\ [][NextLogs]_vars

NextPause ==
    \/ ResumeFetch \/ ResumeDone
    \/ MainLoop
    \/ Mine \/ pause \/ resume

\* Store calls succeed and the process is not killed; the operator pauses and
\* resumes at will. The processor task is always scheduled again (tokio).
FairPauseSpec ==
    InitNoFault /\ [][NextPause]_vars /\ WF_vars(ResumeFetch \/ ResumeDone \/ MainLoop)

\* ------------------------------------------------- verification.rs alone
relayer == <<messages, events, chain, paused, pc, last_block, locals,
             execCalls, settleCalls, faults, crashes, bus, clear_pc>>

\* a bundle built by generate_proof_bundle from any arguments
InitProof ==
    /\ Init!1 /\ Init!2 /\ Init!3 /\ Init!4 /\ Init!5 /\ Init!6 /\ Init!7
    /\ Init!8 /\ Init!9 /\ Init!10 /\ Init!11 /\ Init!12 /\ Init!13 /\ Init!14
    /\ Init!15 /\ Init!16 /\ Init!17
    /\ \E n \in Nonces, b \in BlockNumbers, t \in TxHashes, e \in EventData, k \in Keys :
          LET p == generate_proof_bundle(n, b, t, e, k)
          IN proof = [built |-> p, bundle |-> p, verdict |-> "none"]
    /\ Init!19 /\ Init!20 /\ Init!21 /\ Init!22

\* someone holding the bundle replaces one of its fields
Alter(p) ==
    /\ proof' = [proof EXCEPT !.bundle = p, !.verdict = "none"]
    /\ UNCHANGED <<relayer, receipts, receipt_account, program_result>>

ChangeHeader == \E str \in Strings : Alter([proof.bundle EXCEPT !.block_header = str])
ChangeRoot == \E str \in Strings : Alter([proof.bundle EXCEPT !.event_root = str])
ClearInclusionProof == Alter([proof.bundle EXCEPT !.inclusion_proof = <<>>])
ClearSignature == Alter([proof.bundle EXCEPT !.validator_signature = <<>>])
ZeroNonce == Alter([proof.bundle EXCEPT !.nonce = 0])

Verify ==
    /\ proof.verdict = "none"
    /\ proof' = [proof EXCEPT !.verdict = verify_proof_bundle(proof.bundle)]
    /\ UNCHANGED <<relayer, receipts, receipt_account, program_result>>

NextProof ==
    \/ ChangeHeader \/ ChangeRoot \/ ClearInclusionProof \/ ClearSignature
    \/ ZeroNonce \/ Verify

\* Proof bundles built from any arguments, altered field by field, and verified.
SpecProof == InitProof /\ [][NextProof]_vars

\* --------------------------------------------------- solana_sim.rs alone
InitExecute ==
    /\ Init!1 /\ Init!2 /\ Init!3 /\ Init!4 /\ Init!5 /\ Init!6 /\ Init!7
    /\ Init!8 /\ Init!9 /\ Init!10 /\ Init!11 /\ Init!12 /\ Init!13 /\ Init!14
    /\ Init!15 /\ Init!16 /\ Init!17 /\ Init!18 /\ Init!19 /\ Init!20 /\ Init!21 /\ Init!22

\* a caller invokes execute_on_solana with any nonce, amount and trace id
Execute ==
    /\ Len(receipts) < MaxCalls
    /\ \E nonce \in Nonces, amount \in 0..U64_MAX, trace_id \in TraceIds :
          LET r == execute_on_solana(nonce, amount, trace_id)
          IN receipts' = Append(receipts, [nonce |-> nonce, amount |-> amount,
                                           trace_id |-> trace_id,
                                           sig |-> r.sig, result |-> r.result])
    /\ UNCHANGED <<relayer, proof, receipt_account, program_result>>

\* Calls of execute_on_solana with any u64 amount.
SpecExecute == InitExecute /\ [][Execute]_vars

\* ------------------------------------ the reference program alone
\* a transaction carrying ExecuteCrossChain reaches the program
ExecuteCrossChain ==
    /\ program_result.calls < MaxCalls
    /\ \E nonce \in Nonces, sender \in Senders, amount \in 0..U64_MAX,
          trace_id \in TraceIds, is_signer \in BOOLEAN, key_is_pda \in BOOLEAN,
          invoke_ok \in BOOLEAN :
          LET r == execute_cross_chain(receipt_account[nonce], nonce, sender, amount,
                                       trace_id, is_signer, key_is_pda, invoke_ok,
                                       program_result.calls + 1)
          IN /\ receipt_account' = [receipt_account EXCEPT ![nonce] = r.account]
             /\ program_result' = [calls |-> program_result.calls + 1,
                                   nonce |-> nonce, amount |-> amount,
                                   created |-> r.account # receipt_account[nonce],
                                   result |-> r.result]
    /\ UNCHANGED <<relayer, proof, receipts>>

\* Instructions sent to the reference program with any arguments.
SpecProgram == InitExecute /\ [][ExecuteCrossChain]_vars

\* ------------------------------------------------------------------ properties
Last(seq) == seq[Len(seq)]

CountEvents(n, step, status) ==
    Cardinality({i \in 1..Len(events[n]) :
                    events[n][i].step = step /\ events[n][i].status = status})

Shape(ev) == <<ev.actor, ev.step, ev.status>>

Shapes(n) == [i \in 1..Len(events[n]) |-> Shape(events[n][i])]

TerminalKept ==
    \A n \in Nonces :
       messages[n].state \in Terminal => messages'[n].state = messages[n].state

\* C1: once a message is Settled, Failed or RolledBack, no step (observe, drive,
\* retry, resume, restart) changes its state.
C1_TerminalAbsorbing == [][TerminalKept]_vars

\* the observe phase is handed the log of a message that is already terminal
C1_Witness ==
    /\ pc = "poll_log"
    /\ logs # <<>>
    /\ messages[Head(logs).nonce].state \in Terminal
    /\ crashes > 0

RetryVisitOk ==
    (Visit /\ Head(queue).retry_count = MAX_RETRIES) => pc' = handler_for(current_state)

\* C2: a message whose first attempt failed (retry_count = MAX_RETRIES = 1) gets
\* its handler attempted once more when it is next visited; it is not rolled
\* back before that retry attempt.
C2_RetryIsAttempted == [][RetryVisitOk]_vars

C4_ResumeCoversEveryRow ==
    \A n \in Nonces :
       (messages[n].state \in ResumeStates) ~> (messages[n].state \in Terminal)

ResumeStepOk ==
    pc \in {"resume", "resume_promote"} =>
       /\ pc' \in {"resume", "resume_promote", "loop", "exited"}
       /\ pc' = "loop" => \A n \in Nonces : messages'[n].state # "sent_to_solana"
       /\ execCalls' = execCalls
       /\ settleCalls' = settleCalls
       /\ events' = events
       /\ \A n \in Nonces :
             \/ messages'[n] = messages[n]
             \/ /\ messages[n].state = "sent_to_solana"
                /\ messages'[n] = [messages[n] EXCEPT !.state = "executed"]

\* C5: the resume controller promotes every SentToSolana row to Executed before
\* the main loop starts, changes no other column and no other row, appends no
\* event and makes no destination call.
C5_ResumePromotes == [][ResumeStepOk]_vars

\* resume has just promoted a row that holds a result and a receipt
C5_Witness ==
    /\ pc = "resume_promote"
    /\ msg # NoMsg
    /\ messages[msg.nonce].state = "executed"
    /\ messages[msg.nonce].result # None
    /\ messages[msg.nonce].solana_signature # None

\* C6: the destination's execute is invoked at most once per nonce.
C6_ExecuteAtMostOnce ==
    \A n \in Nonces : execCalls[n] <= 1

\* C7: the settle transaction is submitted at most once per nonce, and never
\* for a message that is RolledBack.
C7_SettleAtMostOnce ==
    \A n \in Nonces :
       /\ settleCalls[n] <= 1
       /\ messages[n].state = "rolled_back" => settleCalls[n] = 0

NonTerminalDriven == {"persisted", "verified", "sent_to_solana", "executed"}

RollbackStepOk ==
    \A n \in Nonces :
       /\ (messages[n].state # "rolled_back" /\ messages'[n].state = "rolled_back") =>
             /\ messages[n].state \in NonTerminalDriven
             /\ messages'[n].error_message = Some(messages[n].state)
             /\ events[n] # <<>>
             /\ Shape(Last(events[n])) = <<"relayer", "rollback", "failure">>
             /\ events' = events
             /\ pc' = "rb_settled"
       /\ (events'[n] # events[n]
             /\ Shape(Last(events'[n])) = <<"ethereum", "settled", "failure">>) =>
             /\ messages[n].state = "rolled_back"
             /\ Shape(Last(events[n])) = <<"relayer", "rollback", "failure">>
             /\ messages' = messages

RolledBackJournal ==
    \A n \in Nonces :
       (/\ faults = 0 /\ crashes = 0
        /\ messages[n].state = "rolled_back"
        /\ ~(pc = "rb_settled" /\ msg.nonce = n)) =>
           LET k == Len(events[n]) IN
           /\ k >= 3
           /\ events[n][k - 2].status = "retry"
           /\ events[n][k - 2].actor = "relayer"
           /\ Shape(events[n][k - 1]) = <<"relayer", "rollback", "failure">>
           /\ Shape(events[n][k]) = <<"ethereum", "settled", "failure">>
           /\ Cardinality({i \in 1..k : events[n][i].status = "retry"}) = 1
           /\ CountEvents(n, "rollback", "failure") = 1
           /\ CountEvents(n, "settled", "failure") = 1

HappyShapes ==
    << <<"ethereum", "locked", "success">>, <<"relayer", "observed", "success">>,
       <<"relayer", "verified", "success">>, <<"relayer", "executed", "success">>,
       <<"solana", "minted", "success">>, <<"solana", "burned", "success">>,
       <<"ethereum", "settled", "success">> >>

SettledDone(n) ==
    /\ messages[n].state = "settled"
    /\ ~(pc = "es_event" /\ msg.nonce = n)

HappyFrame(n) ==
    /\ messages[n].retry_count = 0
    /\ messages[n].solana_signature # None
    /\ messages[n].eth_settle_tx # None
    /\ Shapes(n) = HappyShapes

\* C9: with no store failure a message ends Settled with retry_count 0, a
\* receipt, a settle tx, the seven events in order and result = 2 * amount,
\* the double being taken as the destination computes it (capped at u64::MAX);
\* without a handler failure it is not rolled back.
C9_HappyPath ==
    \A n \in Nonces :
       /\ SettledDone(n) =>
             /\ HappyFrame(n)
             /\ messages[n].result =
                   Some(IF 2 * messages[n].amount > U64_MAX
                        THEN U64_MAX ELSE 2 * messages[n].amount)
       /\ messages[n].state \in {"rolled_back", "failed"} => messages[n].retry_count > 0

\* C10: when the handler for a message found in state S returned an error, the
\* message is still in S while and after its retry is recorded, and its
\* retry_count is one more than when it was fetched.
C10_RetryKeepsState ==
    /\ pc \in {"retry_inc", "retry_event"} => messages[msg.nonce].state = current_state
    /\ pc = "retry_event" => messages[msg.nonce].retry_count = msg.retry_count + 1

AtLeastVerified == {"verified", "sent_to_solana", "executed", "settled"}
AtLeastSent == {"sent_to_solana", "executed", "settled"}

\* C11: every message in Verified, SentToSolana, Executed or Settled has a
\* proof_json.
C11_ProofOnceVerified ==
    \A n \in Nonces :
       messages[n].state \in AtLeastVerified => messages[n].proof_json # None

\* a row that was Verified when the process was killed, found again by resume
C11_Witness ==
    \E n \in Nonces :
       /\ crashes > 0
       /\ pc = "resume_promote"
       /\ messages[n].state = "verified"

\* C12: every message in SentToSolana, Executed or Settled has a result and a
\* destination signature.
C12_ResultOnceSent ==
    \A n \in Nonces :
       messages[n].state \in AtLeastSent =>
          /\ messages[n].result # None
          /\ messages[n].solana_signature # None

\* a row left in SentToSolana by a kill, before resume has promoted it
C12_Witness ==
    \E n \in Nonces :
       /\ crashes > 0
       /\ pc = "resume"
       /\ messages[n].state = "sent_to_solana"

\* C13: a message has an eth_settle_tx exactly when it is Settled.
C13_SettleTxIffSettled ==
    \A n \in Nonces :
       (messages[n].state = "settled") <=> (messages[n].eth_settle_tx # None)

\* one message settled with the synthetic id, another one rolled back
C13_Witness ==
    \E n, k \in Nonces :
       /\ messages[n].state = "settled"
       /\ messages[n].eth_settle_tx = Some(<<"0xsim_settle", n>>)
       /\ messages[k].state = "rolled_back"

SettleErrArmOk ==
    (/\ call_result = "Err"
     /\ pc \in {"es_update", "es_event"}
     /\ pc' # pc
     /\ faults' = faults
     /\ crashes' = crashes) =>
        LET n == msg.nonce IN
        /\ messages'[n].retry_count = messages[n].retry_count
        /\ pc = "es_update" =>
              /\ pc' = "es_event"
              /\ messages[n].state = "executed"
              /\ messages'[n].state = "settled"
              /\ messages'[n].eth_settle_tx = Some(<<"0xsim_settle", n>>)
              /\ events' = events
        /\ pc = "es_event" =>
              /\ pc' = "visit"
              /\ messages' = messages
              /\ events'[n] = Append(events[n],
                                     [actor |-> "ethereum", step |-> "settled",
                                      status |-> "success", detail |-> "simulated_tx"])

\* C14: when call_settle returned an error for an Executed message, the visit
\* (its store calls succeeding) sets Settled with eth_settle_tx 0xsim_settle_n,
\* appends (Ethereum, Settled, Success) with detail simulated_tx:.., and
\* neither increments retry_count nor records a retry.
C14_UnreachableSettlement == [][SettleErrArmOk]_vars

\* a message settled through the Err arm of call_settle
C14_Witness ==
    \E n \in Nonces :
       /\ pc = "visit"
       /\ events[n] # <<>>
       /\ Last(events[n]).detail = "simulated_tx"
       /\ messages[n].state = "settled"
       /\ messages[n].retry_count = 0

PauseRespected ==
    paused =>
       /\ ~(pc = "loop" /\ pc' = "poll_head")
       /\ pc = "visit" =>
             /\ pc' \notin {"rb_event", "pv_verify", "vs_execute", "es_burn"}
             /\ ~(pc' = "visit" /\ queue' # queue)

\* C15: while paused is set, the loop top starts no observe phase and the sweep
\* starts no rollback and no step handler for a further message; what is
\* already running may complete.
C15_PauseRespected == [][PauseRespected]_vars

\* paused in the middle of a sweep: one message was handled (its retry is
\* recorded), the next one is waiting
C15_Witness ==
    \E n \in Nonces :
       /\ paused
       /\ pc = "visit"
       /\ queue # <<>>
       /\ current_state = "persisted"
       /\ messages[n].retry_count = 1
       /\ messages[n].state = "persisted"

States == {"observed", "persisted", "verified", "sent_to_solana", "executed",
           "settled", "failed", "rolled_back"}

\* arguments of update_message_state: NULL or a fresh value
ResultArgs == {None, Some(U64_MAX)}
SigArgs == {None, Some(<<"sim_new", 0>>)}
SettleTxArgs == {None, Some(<<"tx_new", 0>>)}
ErrorArgs == {None, Some("new_error")}

UpdateFrame(n, new_state, result, sig, tx, err) ==
    LET t == update_message_state(messages, n, new_state, result, sig, tx, err) IN
    /\ t[n].state = new_state
    /\ t[n].result = IF result = None THEN messages[n].result ELSE result
    /\ t[n].solana_signature = IF sig = None THEN messages[n].solana_signature ELSE sig
    /\ t[n].eth_settle_tx = IF tx = None THEN messages[n].eth_settle_tx ELSE tx
    /\ t[n].error_message = IF err = None THEN messages[n].error_message ELSE err
    /\ t[n].proof_json = messages[n].proof_json
    /\ t[n].retry_count = messages[n].retry_count
    /\ t[n].amount = messages[n].amount
    /\ \A k \in Nonces \ {n} : t[k] = messages[k]

\* C16: update_message_state writes the new state and exactly the artifacts
\* passed non-null; a NULL argument keeps the column; proof_json, retry_count
\* and every other row are unchanged.
C16_UpdateStateFrame ==
    \A n \in Nonces :
       messages[n].state # "absent" =>
          \A new_state \in States, result \in ResultArgs, sig \in SigArgs,
             tx \in SettleTxArgs, err \in ErrorArgs :
                UpdateFrame(n, new_state, result, sig, tx, err)

\* a settled row still holding the artifacts written by earlier updates
C16_Witness ==
    \E n \in Nonces :
       /\ messages[n].state = "settled"
       /\ messages[n].result # None
       /\ messages[n].solana_signature # None
       /\ messages[n].proof_json # None
       /\ \E k \in Nonces : messages[k].error_message # None

IsPrefix(s, t) == Len(s) <= Len(t) /\ \A i \in 1..Len(s) : s[i] = t[i]

JournalStepOk ==
    \A n \in Nonces :
       /\ IsPrefix(events[n], events'[n])
       /\ IsPrefix(get_events_by_nonce(events, n), get_events_by_nonce(events', n))

JournalListed ==
    \A n \in Nonces : get_events_by_nonce(events, n) = events[n]

\* C17: no step updates or deletes an event; get_events_by_nonce(n) returns the
\* events emitted for n, in the order they were emitted, so an earlier listing
\* is a prefix of every later one.
C17_JournalAppendOnly == [][JournalStepOk]_vars /\ []JournalListed

\* C18: within one sweep and one state the messages are visited by ascending
\* u64 nonce: the fetched rows are in ascending order, and the message being
\* visited has a smaller nonce than those still waiting.
C18_AscendingNonceOrder ==
    /\ \A i, j \in 1..Len(queue) : i < j => queue[i].nonce < queue[j].nonce
    /\ (msg # NoMsg /\ queue # <<>>) => msg.nonce < queue[1].nonce

DeliveryInOrder ==
    \A i, j \in 1..Len(bus.delivered) :
       i < j => bus.delivered[i] < bus.delivered[j]

\* C19: a subscriber that lags past the buffer bound loses only the overflowed
\* events and goes on receiving (its forwarding task never ends because of
\* the lag), and what it receives is in emission order.
C19_LaggingSubscriberKeepsReceiving ==
    /\ bus.rx # "ended"
    /\ DeliveryInOrder

CountRows(S) == Cardinality({n \in Nonces : messages[n].state \in S})

\* C20: get_metrics partitions the rows: settled counts Settled, failed counts
\* Failed and RolledBack, pending counts every other row, total is their sum,
\* and total_retries is the sum of retry_count over all rows.
C20_MetricsPartition ==
    LET m == get_metrics(messages) IN
    /\ m.settled = CountRows({"settled"})
    /\ m.failed = CountRows({"failed", "rolled_back"})
    /\ m.pending = CountRows(States \ {"settled", "failed", "rolled_back"})
    /\ m.total = CountRows(States)
    /\ m.total = m.settled + m.failed + m.pending
    /\ m.retries = SumOver([n \in Nonces |-> messages[n].retry_count], Nonces)

\* one message settled, one rolled back after its retry was counted
C20_Witness ==
    LET m == get_metrics(messages) IN
    /\ m.total = 2
    /\ m.settled = 1
    /\ m.failed = 1
    /\ m.retries >= 1

SameBut(fields) ==
    /\ "block_header" \notin fields => proof.bundle.block_header = proof.built.block_header
    /\ "event_root" \notin fields => proof.bundle.event_root = proof.built.event_root
    /\ proof.bundle.inclusion_proof = proof.built.inclusion_proof
    /\ proof.bundle.validator_signature = proof.built.validator_signature
    /\ proof.bundle.relayer_address = proof.built.relayer_address
    /\ proof.bundle.nonce = proof.built.nonce

Changed ==
    \/ proof.bundle.block_header # proof.built.block_header
    \/ proof.bundle.event_root # proof.built.event_root

\* a bundle in which only one of the two hashed fields differs is rejected
OneFieldChangedRejected ==
    (/\ proof.verdict # "none"
     /\ Changed
     /\ SameBut({"block_header"}) \/ SameBut({"event_root"})) => proof.verdict = "Err"

\* C21: verify accepts the bundle built for a non-zero nonce from any block
\* number, tx hash, event bytes and valid key, and rejects that bundle once its
\* event_root or its block_header differs from what was built.
C21_ProofRoundTrip ==
    proof.verdict # "none" =>
       /\ (proof.bundle = proof.built /\ proof.built.nonce # 0) => proof.verdict = "Ok"
       /\ (Changed /\ SameBut({"block_header", "event_root"})) => proof.verdict = "Err"

\* the bundle of each nonce with one of the four fields emptied, or nonce 0
DefectiveBundles ==
    UNION {LET p == generate_proof_bundle(n, 0, 0, 0, relayer_private_key)
           IN {[p EXCEPT !.block_header = <<>>], [p EXCEPT !.event_root = <<>>],
               [p EXCEPT !.inclusion_proof = <<>>],
               [p EXCEPT !.validator_signature = <<>>],
               generate_proof_bundle(0, 0, 0, 0, relayer_private_key)}
           : n \in Nonces}

\* C22: verify rejects a bundle whose block_header, event_root, inclusion_proof
\* or validator_signature is empty or whose nonce is 0; the message with nonce
\* 0 is never Verified or later and never has a proof_json.
C22_DefectiveBundleRejected ==
    /\ \A p \in DefectiveBundles : verify_proof_bundle(p) = "Err"
    /\ messages[0].state \notin AtLeastVerified
    /\ messages[0].proof_json = None

\* the message with nonce 0 was rolled back from Persisted while the message
\* with nonce 1 went on to Verified
C22_Witness ==
    /\ messages[0].state = "rolled_back"
    /\ messages[0].error_message = Some("persisted")
    /\ messages[0].retry_count = MAX_RETRIES
    /\ messages[1].state \in AtLeastVerified

Min(a, b) == IF a < b THEN a ELSE b

\* C23: every call execute(nonce, a, t) returned min(2 * a, u64::MAX), which is
\* u64::MAX for a = u64::MAX, and two calls with the same nonce, amount and
\* trace id returned the same receipt id and the same result.
C23_DestinationResultLaw ==
    \A i \in 1..Len(receipts) :
       /\ receipts[i].result = Min(2 * receipts[i].amount, U64_MAX)
       /\ receipts[i].amount = U64_MAX => receipts[i].result = U64_MAX
       /\ \A j \in 1..Len(receipts) :
             (/\ receipts[j].nonce = receipts[i].nonce
              /\ receipts[j].amount = receipts[i].amount
              /\ receipts[j].trace_id = receipts[i].trace_id) =>
                 /\ receipts[j].sig = receipts[i].sig
                 /\ receipts[j].result = receipts[i].result

\* execute was called twice with amount u64::MAX and the same nonce and trace id
C23_Witness ==
    /\ Len(receipts) = 2
    /\ receipts[1].amount = U64_MAX
    /\ receipts[1].nonce = receipts[2].nonce
    /\ receipts[1].amount = receipts[2].amount
    /\ receipts[1].trace_id = receipts[2].trace_id

LifecycleEdges ==
    {<<"absent", "observed">>, <<"observed", "persisted">>,
     <<"persisted", "verified">>, <<"verified", "sent_to_solana">>,
     <<"sent_to_solana", "executed">>, <<"executed", "settled">>}
    \cup {<<st, "rolled_back">> : st \in NonTerminalDriven}

LifecycleStepOk ==
    \A n \in Nonces :
       messages'[n].state # messages[n].state =>
          <<messages[n].state, messages'[n].state>> \in LifecycleEdges

\* C24: every change of a message's state, in any step of the observe phase,
\* the sweeps, the resume controller and across store failures and restarts,
\* is one of the lifecycle edges: created -> Observed -> Persisted -> Verified
\* -> SentToSolana -> Executed -> Settled, or Persisted..Executed -> RolledBack.
C24_LifecycleEdges == [][LifecycleStepOk]_vars

\* a message rolled back from SentToSolana, where a store failure had left it
C24_Witness ==
    \E n \in Nonces :
       /\ messages[n].state = "rolled_back"
       /\ messages[n].error_message = Some("sent_to_solana")
       /\ messages[n].result # None

HandlerLabels == {"pv_verify", "vs_execute", "es_burn"}

RetryBounded ==
    \A n \in Nonces :
       /\ messages[n].retry_count >= 0
       /\ messages[n].retry_count <= MAX_RETRIES

RetryStepOk ==
    /\ \A n \in Nonces : messages'[n].retry_count >= messages[n].retry_count
    /\ (pc = "visit" /\ queue # <<>> /\ pc' \in HandlerLabels \cup {"visit"}
           /\ queue' = Tail(queue)) =>
          messages[Head(queue).nonce].retry_count < MAX_RETRIES

C26_Progress ==
    <>[](~paused) =>
       \A n \in Nonces :
          (messages[n].state \in ResumeStates) ~>
             (messages[n].state \in {"settled", "rolled_back"})

\* after a pause, one message is settled and another one, whose handler had
\* failed, is rolled back
C26_Witness ==
    \E n, k \in Nonces :
       /\ ~paused
       /\ messages[n].state = "settled"
       /\ messages[k].state = "rolled_back"
       /\ messages[k].retry_count = MAX_RETRIES

PollLabels == {"poll_head", "poll_fetch", "poll_log", "poll_insert",
               "poll_locked", "poll_observed", "poll_persist"}

\* a step of the running process (not the start of a new one, whose
\* run_processor has a new last_block)
SameRun == pc' # "resume"

CursorStepOk ==
    SameRun =>
       /\ last_block' >= last_block
       \* set only at the end of the batch, to the head read at its start
       /\ last_block' # last_block =>
             /\ pc = "poll_log" /\ logs = <<>>
             /\ last_block' = current_block
             /\ current_block > last_block
       \* the poll is left early (head <= last_block, RPC or store error)
       /\ (pc \in PollLabels /\ pc' \notin PollLabels
              /\ ~(pc = "poll_log" /\ logs = <<>>)) => last_block' = last_block
       \* h <= last_block: nothing is fetched or written
       /\ (pc = "poll_head" /\ current_block' <= last_block /\ pc' # pc) =>
             /\ pc' = "drive_fetch"
             /\ logs' = <<>>
             /\ db' = db
       \* the range fetched: every block after last_block
       /\ (pc = "poll_fetch" /\ pc' = "poll_log") =>
             /\ Len(logs') = Len(chain) - last_block
             /\ \A i \in 1..Len(logs') : logs'[i] = chain[last_block + i]

\* C27: within a run last_block never decreases; it changes only at the end of
\* a batch, to the head read at the start of that poll; a poll left through a
\* failure of the head query, the log fetch or a store call leaves it as it
\* was, so that the next fetch starts from the same block (0 when last_block
\* is 0, last_block + 1 otherwise); with head <= last_block nothing is fetched
\* or written.
C27_ObserveCursor == [][CursorStepOk]_vars

\* a store call failed in the middle of the first batch: the cursor is still
\* 0 and the same log has been fetched again
C27_Witness ==
    /\ pc = "poll_log"
    /\ logs # <<>>
    /\ last_block = 0
    /\ crashes = 0
    /\ faults > 0
    /\ Len(chain) = 1
    /\ messages[Head(logs).nonce].state # "absent"

\* C28: every source log in a block <= last_block has a row, and that row has
\* left Observed (no step of this specification clears the store).
C28_NoObservedLogLost ==
    \A b \in 1..Len(chain) :
       b <= last_block =>
          messages[chain[b].nonce].state \notin {"absent", "observed"}

IsEvent(ev, step, status) == ev.step = step /\ ev.status = status

\* C29: for a message that is not being visited: if it is Settled, its journal
\* has exactly one (Ethereum, Settled, Success) event and no Retry event after
\* it; if it is RolledBack, its journal has exactly one Rollback(Failure)
\* event and exactly one (Ethereum, Settled, Failure) event, in that order.
C29_TerminalEvents ==
    \A n \in Nonces :
       msg.nonce # n =>
          /\ messages[n].state = "settled" =>
                /\ CountEvents(n, "settled", "success") = 1
                /\ \A i, j \in 1..Len(events[n]) :
                      (i < j /\ IsEvent(events[n][i], "settled", "success")) =>
                         events[n][j].status # "retry"
          /\ messages[n].state = "rolled_back" =>
                /\ CountEvents(n, "rollback", "failure") = 1
                /\ CountEvents(n, "settled", "failure") = 1
                /\ \A i, j \in 1..Len(events[n]) :
                      (/\ IsEvent(events[n][i], "rollback", "failure")
                       /\ IsEvent(events[n][j], "settled", "failure")) => i < j

HandlerStepLabels == {"pv_verify", "pv_store", "pv_update", "pv_event",
                      "vs_execute", "vs_sent", "vs_event", "vs_executed",
                      "vs_minted", "es_burn", "es_settle", "es_update", "es_event"}

RecordingLabels == {"retry_inc", "retry_event", "rb_event", "rb_update", "rb_settled"}

SweepGoesOn ==
    /\ queue' = queue
    /\ current_state' = current_state

SweepStepOk ==
    \* the step handler of msg returns an error
    /\ (pc \in HandlerStepLabels /\ pc' = "retry_inc") => SweepGoesOn
    \* a store call fails while the retry or the rollback of msg is recorded,
    \* and messages of the same state are still waiting
    /\ (pc \in RecordingLabels /\ faults' > faults /\ queue # <<>>) =>
          /\ pc' = "visit"
          /\ SweepGoesOn

\* C30: when the handling of one message fails (its step handler errors, or a
\* store call fails while its retry or rollback is recorded), the sweep goes
\* on: the messages of the same state still waiting and the later states are
\* visited in the same sweep.
C30_FailureIsolation == [][SweepStepOk]_vars

LoopLabels == {"loop"} \cup PollLabels \cup {"drive_fetch", "visit"}
                 \cup RecordingLabels \cup HandlerStepLabels

ProcessorGoesOn ==
    \* no step of the main loop ends the processor
    /\ pc \in LoopLabels => pc' \in LoopLabels
    \* a log that does not decode is skipped: the batch goes on with the next
    \* log and nothing is written for it
    /\ (pc = "poll_log" /\ logs # <<>> /\ Head(logs).form \in Malformed
           /\ chain' = chain) =>
          /\ pc' = "poll_log"
          /\ logs' = Tail(logs)
          /\ db' = db

\* C31: an error in the observe or the drive phase never ends the processor,
\* and a malformed source log (short body, payload offset or length out of
\* range, missing topics) is skipped as a decode error: the batch goes on and
\* nothing is written for it.
C31_ErrorsNeverStopProcessor == [][ProcessorGoesOn]_vars

\* C32: every event in the events table has a row with the same nonce in the
\* messages table, also while and after clear_data runs beside the processor;
\* once clear_data has returned, both tables are empty until the processor is
\* resumed.
C32_ClearConsistency ==
    /\ \A n \in Nonces : events[n] # <<>> => messages[n].state # "absent"
    /\ clear_pc = "done" => (events = NoEvents /\ messages = NoMessages)

IngestionPaused ==
    paused =>
       \A n \in Nonces :
          /\ (messages[n].state = "absent") => (messages'[n].state = "absent")
          /\ CountEvents(n, "locked", "success")' <= CountEvents(n, "locked", "success")
          /\ CountEvents(n, "observed", "success")' <= CountEvents(n, "observed", "success")

\* C33: while paused is set no row is created and no Locked or Observed event
\* is appended, also when the flag was set in the middle of a batch.
C33_IngestionHonoursPause == [][IngestionPaused]_vars

\* --------------------------------------------- two failing store calls
\* As Init, with room for two failing store calls: a handler can fail and
\* increment_retry can fail after it, which leaves the row where it was with
\* its retry_count unchanged.
InitSent ==
    /\ Init!1 /\ Init!2 /\ Init!3 /\ Init!4 /\ Init!5 /\ Init!6 /\ Init!7
    /\ Init!8 /\ Init!9 /\ Init!10 /\ Init!11 /\ Init!12 /\ Init!13 /\ Init!14
    /\ faults = MaxFaults - 2
    /\ Init!16
    /\ Init!17 /\ Init!18 /\ Init!19 /\ Init!20 /\ Init!21 /\ Init!22

\* The relayer of Spec with two failing store calls.
SpecSent == InitSent /\ [][Next]_vars

\* a step of process_state that visits a SentToSolana row with budget left
SentVisit ==
    /\ pc = "visit" /\ queue # <<>> /\ ~paused
    /\ current_state = "sent_to_solana"
    /\ ~budget_exhausted(Head(queue).retry_count)
    /\ crashes' = crashes /\ chain' = chain /\ paused' = paused

NoOpVisit ==
    SentVisit =>
       /\ messages' = messages /\ events' = events /\ bus' = bus
       /\ execCalls' = execCalls /\ settleCalls' = settleCalls
       /\ pc' = "visit" /\ queue' = Tail(queue)

PromotedAt(labels) ==
    \A n \in Nonces :
       (messages[n].state = "sent_to_solana" /\ messages'[n].state = "executed")
          => pc \in labels

NeverVerifies(n) == verify_proof_bundle(proof_for([nonce |-> n])) = "Err"

NoRowFailed == \A n \in Nonces : messages[n].state # "failed"

\* C35: a message whose processing meets a fault that no retry can cure is
\* moved to Failed.
C35_UnrecoverableFaultFails ==
    \A n \in Nonces :
       (messages[n].state = "persisted" /\ NeverVerifies(n))
          ~> (messages[n].state = "failed")

\* at the end of an iteration every row is terminal or has met a failure
EndToEnd ==
    pc = "loop" =>
       \A n \in Nonces :
          \/ messages[n].state \in {"absent", "settled", "rolled_back"}
          \/ messages[n].retry_count > 0

\* the row being visited is in the state of the sweep, and is not visited again
VisitOnce ==
    (pc = "visit" /\ queue # <<>>) =>
       /\ messages[Head(queue).nonce].state = current_state
       /\ \A i \in 2..Len(queue) : queue[i].nonce # Head(queue).nonce

\* each state is fetched once per sweep, in the order of NextState
SweepForward ==
    /\ current_state' # current_state =>
          \/ current_state' = "none"
          \/ current_state' = "persisted" /\ current_state = "none"
          \/ current_state # "none" /\ current_state' = NextState(current_state)
    /\ (pc' = "drive_fetch" /\ pc # "drive_fetch") => current_state' # current_state

\* C36: without failures a message ingested by the observe phase of an
\* iteration is settled when that iteration ends; the sweep takes the states in
\* order, once each, and visits a row once in each state.
C36_EndToEndInOneIteration == [][EndToEnd' /\ VisitOnce' /\ SweepForward]_vars

C36_Witness ==
    /\ pc = "loop"
    /\ messages[1].state = "settled" /\ messages[1].retry_count = 0
    /\ execCalls[1] = 1 /\ settleCalls[1] = 1

RefusedByRuntime == {"MissingRequiredSignature", "InvalidArgument", "InvokeError"}

\* the last instruction was the first execution for its nonce: it was not
\* refused for its accounts and did not find an initialised receipt
FirstExecution ==
    /\ program_result.result \notin RefusedByRuntime \cup {"none"}
    /\ ~(program_result.result = "Ok" /\ ~program_result.created)

\* C39: the first execution of the reference program for a nonce succeeds with
\* a receipt holding the result execute_on_solana returns for the same amount.
C39_SimulatorMatchesProgram ==
    FirstExecution =>
       /\ program_result.result = "Ok"
       /\ receipt_account[program_result.nonce].data.result
             = execute_on_solana(program_result.nonce, program_result.amount,
                                 <<0, 0>>).result

\* a later instruction for nonce n, with the payer signing and the receipt PDA
\* of n among its accounts
LaterCall(n) ==
    /\ receipt_account[n].data.is_initialized
    /\ program_result'.calls = program_result.calls + 1
    /\ program_result'.nonce = n
    /\ program_result'.result \notin {"MissingRequiredSignature", "InvalidArgument"}

\* C40: once a receipt is initialised, a later instruction for the same nonce
\* returns Ok and leaves every receipt account as it was, whatever its amount,
\* sender and trace id.
C40_ReceiptIdempotent ==
    [][\A n \in Nonces :
          LaterCall(n) => /\ program_result'.result = "Ok"
                          /\ receipt_account' = receipt_account]_vars

C40_Witness ==
    /\ program_result.calls = 2
    /\ program_result.result = "Ok" /\ ~program_result.created
    /\ program_result.amount > U64_MAX \div 2
    /\ receipt_account[program_result.nonce].data.is_initialized
    /\ receipt_account[program_result.nonce].data.executed_at = 1

\* C38: a result stored on a row is the saturating double of the amount stored
\* on that row, for amounts above u64::MAX too, and is not 0 unless the
\* amount is 0.
C38_ResultIsSaturatingDouble ==
    \A n \in Nonces :
       messages[n].result # None =>
          /\ messages[n].result = Some(Min(2 * messages[n].amount, U64_MAX))
          /\ messages[n].amount # 0 => messages[n].result # Some(0)

\* the events sent for nonce n since the client subscribed
SentFor(n) ==
    LET s == SelectSeq(bus.sent, LAMBDA e : e.nonce = n)
    IN [i \in 1..Len(s) |-> s[i].event]

\* s is a run of consecutive elements of t (the last ones when to_end)
IsRunOf(s, t, to_end) ==
    \E k \in 0..(Len(t) - Len(s)) :
       /\ \A i \in 1..Len(s) : s[i] = t[k + i]
       /\ to_end => k = Len(t) - Len(s)

BroadcastIsJournalled ==
    /\ \A n \in Nonces : IsRunOf(SentFor(n), events[n], bus.rx = "open")
    /\ \A i \in 1..Len(bus.delivered) : bus.delivered[i] \in 1..Len(bus.sent)

BroadcastFollowsInsert ==
    /\ faults' # faults => (bus' = bus /\ events' = events)
    /\ bus'.sent # bus.sent =>
          \E n \in Nonces :
             /\ Len(events'[n]) = Len(events[n]) + 1
             /\ bus'.sent = Append(bus.sent, [nonce |-> n, event |-> Last(events'[n])])

\* C37: an event is sent on the bus only in the step that inserted it; a
\* failed insert sends nothing; per nonce the events sent are consecutive
\* events of the journal in its order (the last ones while the subscriber is
\* live), and every event delivered is one of them.
C37_PersistBeforeBroadcast == [][BroadcastIsJournalled' /\ BroadcastFollowsInsert]_vars

C37_Witness ==
    /\ faults > 0
    /\ bus.rx = "open"
    /\ \E n \in Nonces : Len(events[n]) > Len(SentFor(n)) /\ Len(SentFor(n)) >= 2

=============================================================================
